---- MODULE Spec2Model ----
(***************************************************************************)
(* Split-shipment fulfillment saga of one primary order:                   *)
(*   - handleSplitPrimaryOrderCreated (app/handlers/split.js), one process *)
(*     per delivery of the orders/create job, one step per awaited store   *)
(*     or gateway call;                                                    *)
(*   - the payment-captured webhook, the primary-order-cancelled webhook   *)
(*     and the payment-order-cancelled webhook, which share the store;     *)
(*   - the orders/create webhook route, which enqueues a job per delivery  *)
(*     with deduplication by event id, and the settling of a job by the    *)
(*     queue (QueueSpec);                                                  *)
(*   - calculateFulfillmentSplits, the parcel packer (PackSpec), and the   *)
(*     handler on the line items of an order (OrderSpec).                  *)
(* The store holds the additional_shipping_requests row of the order and   *)
(* its additional_shipping_request_fulfillment_holds rows.  The Shopify    *)
(* Admin API is external: each call either throws/returns userErrors or    *)
(* succeeds, chosen nondeterministically.                                  *)
(* Columns updated_at / created_at of the request row are not modelled.    *)
(***************************************************************************)
EXTENDS Integers, Sequences, FiniteSets, TLC

\* ---------------------------------------------------------------- bounds
NumDeliveries == 2      \* deliveries of the orders/create job for the order
MaxFO == 2              \* fulfillment orders in one hold batch
MaxPayEvents == 2       \* deliveries of the payment webhook
MaxCancelEvents == 1    \* deliveries of each cancellation webhook
MaxInFlight == 2        \* entrypoints executing at the same time
MaxEvents == 3          \* deliveries of all entrypoints together
MaxEventIds == 2        \* distinct upstream event ids of the orders/create webhook
MaxLines == 3           \* line items of an order
MaxQuantity == 4        \* quantity of a line item

\* defaultJobOptions.attempts of the orders-create queue
attempts == 1

Runs == 1..NumDeliveries
PayEvents == 1..MaxPayEvents
EventIds == 1..MaxEventIds

\* ----------------------------------------------------------- store values
NoLog == [kind |-> "null", holds |-> {}]
Log(kind) == [kind |-> kind, holds |-> {}]

Statuses == {"PENDING", "APP_DISABLED", "AWAITING_PAYMENT", "COMPLETED", "FAILED", "CANCELLED"}

\* new Response(body): status 200
Response(body) == [status |-> 200, body |-> body]

\* no row for the order yet; 0 stands for a null id and a null timestamp
NoRow == [status |-> "NONE", userChoice |-> FALSE, calculatedParcels |-> 0,
          additionalShippingAmount |-> 0,
          paymentOrderId |-> 0, draftOrderId |-> 0, errorLog |-> NoLog,
          primaryOrderCancelledAt |-> 0, paymentOrderCancelledAt |-> 0]

\* ids handed out by the gateway to delivery r: fulfillment orders, holds,
\* the draft order and the payment order
FoId(r, i) == 10 * r + i
HoldId(r, i) == 100 + 10 * r + i
DraftId(r) == 200 + r
PaymentOrderId(r) == 300 + r

\* ------------------------------------------------------- orders/create payload
\* shipping_lines[0].title as the lookups read it: whether it is a non-empty
\* string, and the tiers whose marker ("N档邮政" or "#N") it includes
Title(tiers) == [present |-> TRUE, tiers |-> tiers]
NoTitle == [present |-> FALSE, tiers |-> {}]

\* the tier of the first branch whose marker the title includes; 0 when none
FirstTier(title) ==
  IF title.tiers = {} THEN 0
  ELSE CHOOSE t \in title.tiers : \A u \in title.tiers : t <= u

\* getParcelPriceByShippingLineTitle; 0 stands for null
getParcelPriceByShippingLineTitle(title, countryCode) ==
  IF ~title.present \/ countryCode = "" THEN 0
  ELSE CASE FirstTier(title) = 1 -> IF countryCode = "CN" THEN 25 ELSE 38
         [] FirstTier(title) = 2 -> IF countryCode = "CN" THEN 25 ELSE 38
         [] FirstTier(title) = 3 -> 38
         [] FirstTier(title) = 4 -> IF countryCode = "CN" THEN 15 ELSE 38
         [] FirstTier(title) = 5 -> 38
         [] OTHER -> 0

\* getShippingLineLevel; 0 stands for null
getShippingLineLevel(title, countryCode) ==
  IF ~title.present \/ countryCode = "" THEN 0
  ELSE IF FirstTier(title) = 0 THEN 0
  ELSE IF countryCode = "CN" THEN FirstTier(title) ELSE 2

\* what the prechecks of the handler read from the payload
Payload(fieldsOk, customerOk, hasShippingLines, splitChoice, fulfillmentCount, title, countryCode) ==
  [fieldsOk |-> fieldsOk, customerOk |-> customerOk, hasShippingLines |-> hasShippingLines,
   splitChoice |-> splitChoice, fulfillmentCount |-> fulfillmentCount,
   title |-> title, countryCode |-> countryCode]

Payloads ==
  { Payload(TRUE,  TRUE,  TRUE,  "yes",  2, Title({1}), "CN"),
    Payload(TRUE,  TRUE,  TRUE,  "no",   3, Title({3, 4}), "US"),
    Payload(TRUE,  TRUE,  TRUE,  "no",   1, Title({2}), "CN"),
    Payload(TRUE,  TRUE,  TRUE,  "yes",  1, Title({1}), "CN"),
    Payload(TRUE,  TRUE,  TRUE,  "none", 2, Title({1}), "CN"),
    Payload(TRUE,  TRUE,  TRUE,  "yes",  2, Title({}), "CN"),
    Payload(TRUE,  TRUE,  TRUE,  "yes",  2, Title({4}), ""),
    Payload(TRUE,  TRUE,  TRUE,  "yes",  2, NoTitle, "CN"),
    Payload(TRUE,  TRUE,  FALSE, "yes",  2, NoTitle, "CN"),
    Payload(TRUE,  FALSE, TRUE,  "yes",  2, Title({1}), "CN"),
    Payload(FALSE, TRUE,  TRUE,  "yes",  2, Title({1}), "CN") }

VARIABLES
  payload,        \* the orders/create payload of the order (same in every delivery)
  appEnabled,     \* additional_shipping_request_settings.app_enabled of the shop
  req,            \* the additional_shipping_requests row of the order
  holds,          \* rows of additional_shipping_request_fulfillment_holds
  paymentOrders,  \* payment orders that exist at the gateway (completed drafts)
  run,            \* each delivery of the job: position in the handler and its locals
  hook,           \* each delivery of the payment webhook: position and locals
  primaryCancels, \* primary-order-cancelled events delivered
  paymentCancels, \* payment-order-cancelled events delivered
  cancelResponse, \* the last response of a cancellation webhook: status and body
  dedup,          \* event ids whose deduplication key is set in the queue
  lines,          \* the line items handed to calculateFulfillmentSplits
  opts,           \* the opts handed to it
  packed,         \* calculateFulfillmentSplits has returned
  allUnits,       \* its allUnits after the explode loop
  parcelUnits,    \* the unit lists it consolidates, parcel by parcel
  finalParcels,   \* what it returns
  again,          \* a second call on the same arguments, and what it returns
  recommended     \* fulfillmentCount of recommendFulfillmentCount on the lines and opts

cvars == <<primaryCancels, paymentCancels, cancelResponse>>
qvars == <<dedup>>
pvars == <<lines, opts, packed, allUnits, parcelUnits, finalParcels, again, recommended>>
vars == <<payload, appEnabled, req, holds, paymentOrders, run, hook, cvars, qvars, pvars>>

\* opts: cap and absorbPerHeavy in currency units, absorbItemsPerHeavy a count;
\* a caller that passes no opts (the handler, line 87) gets the defaults of
\* lines 11-13
Opts(cap, absorbPerHeavy, items) ==
  [cap |-> cap, absorbPerHeavy |-> absorbPerHeavy, absorbItemsPerHeavy |-> items]
DefaultOpts == Opts(270, 60, 2)
LowCapOpts == Opts(27, 60, 2)

\* no second call of calculateFulfillmentSplits yet
NotCalled == [called |-> FALSE, parcels |-> <<>>]

\* a delivery that has not started; the locals of a finished delivery are gone
\*   pc            position in handleSplitPrimaryOrderCreated
\*   result        what the handler returned: skip reason, "success" or "raised"
\*   isAppEnabled  local isAppEnabled
\*   existingRecord  status of the record the select returned ("NONE": null)
\*   holdResults   per-alias results of the bulk hold mutation
\*   rollbackReq   hold ids named in the rollbackHolds mutation
\*   err           the error caught by a phase, handed to logDbError; on a
\*                 delivery that raised, the error it threw ("" for one thrown
\*                 outside the phases)
\*   gw            gateway calls issued so far, in order
\* and of its job in the queue
\*   job           "none" (not enqueued), "dropped" (ignored by add), "waiting",
\*                 "active", "delayed", "completed" or "failed"
\*   attemptsMade  attempts of the job that have finished
\*   eventId       the event id of the webhook delivery, 0 when it has none
IdleRun == [pc |-> "idle", result |-> "", isAppEnabled |-> FALSE, existingRecord |-> "",
            holdResults |-> <<>>, rollbackReq |-> {}, err |-> "", gw |-> <<>>,
            job |-> "waiting", attemptsMade |-> 0, eventId |-> 0]

\*   pc              position in the payment webhook
\*   activeHolds     local activeHolds
\*   releaseResults  per-alias results of the bulk release mutation
IdleHook == [pc |-> "idle", activeHolds |-> {}, releaseResults |-> <<>>]

\* entrypoints that are between their first and their last step
InFlight ==
  Cardinality({r \in Runs : run[r].pc \notin {"idle", "done"}})
  + Cardinality({w \in PayEvents : hook[w].pc \notin {"idle", "done"}})

\* deliveries that have started, of all entrypoints
Delivered ==
  Cardinality({r \in Runs : run[r].pc # "idle"})
  + Cardinality({w \in PayEvents : hook[w].pc # "idle"})
  + primaryCancels + paymentCancels

\* a further delivery may start
MayStart == InFlight < MaxInFlight /\ Delivered < MaxEvents

Init ==
  /\ payload \in Payloads
  /\ appEnabled \in BOOLEAN
  /\ req = NoRow
  /\ holds = {}
  /\ paymentOrders = {}
  /\ run = [r \in Runs |-> IdleRun]
  /\ hook = [w \in PayEvents |-> IdleHook]
  /\ primaryCancels = 0
  /\ paymentCancels = 0
  /\ cancelResponse = Response("")
  /\ dedup = {}
  /\ lines = <<>>
  /\ packed = FALSE
  /\ allUnits = <<>>
  /\ parcelUnits = <<>>
  /\ finalParcels = <<>>
  /\ opts = DefaultOpts
  /\ again = NotCalled
  /\ recommended = 0

\* ------------------------------------------- handleSplitPrimaryOrderCreated
\* variant: a count of 1 passes the split check
PrecheckCountBelowOne(p, admin) ==
  IF ~admin THEN "no_admin"
  ELSE IF ~p.fieldsOk THEN "missing_order_fields"
  ELSE IF ~p.customerOk THEN "missing_customer"
  ELSE IF ~p.hasShippingLines THEN "no_shipping_lines"
  ELSE IF p.splitChoice = "none" \/ p.fulfillmentCount < 1 THEN "no_split_required"
  ELSE IF getShippingLineLevel(p.title, p.countryCode) = 0
          \/ getParcelPriceByShippingLineTitle(p.title, p.countryCode) = 0
    THEN "unknown_shipping_level_or_price"
  ELSE "ok"

\* the early returns before the first store call
Precheck(p, admin) ==
  IF ~admin THEN "no_admin"
  ELSE IF ~p.fieldsOk THEN "missing_order_fields"
  ELSE IF ~p.customerOk THEN "missing_customer"
  ELSE IF ~p.hasShippingLines THEN "no_shipping_lines"
  ELSE IF p.splitChoice = "none" \/ p.fulfillmentCount <= 1 THEN "no_split_required"
  ELSE IF getShippingLineLevel(p.title, p.countryCode) = 0
          \/ getParcelPriceByShippingLineTitle(p.title, p.countryCode) = 0
    THEN "unknown_shipping_level_or_price"
  ELSE "ok"

splitChoiceBoolean == payload.splitChoice = "yes"

\* the job after an attempt that returned or threw res: completed, or, after
\* a throw, delayed for a retry while attempts are left, else failed
Settle(j, res) ==
  LET made == j.attemptsMade + 1 IN
    IF res # "raised"
      THEN [IdleRun EXCEPT !.pc = "done", !.result = res, !.job = "completed",
                           !.attemptsMade = made, !.eventId = j.eventId]
      ELSE IF made < attempts
        THEN [IdleRun EXCEPT !.job = "delayed", !.attemptsMade = made, !.eventId = j.eventId]
        ELSE [IdleRun EXCEPT !.pc = "done", !.result = res, !.job = "failed", !.err = j.err,
                             !.attemptsMade = made, !.eventId = j.eventId]

\* the handler returns or throws
Finish(r, res) == run' = [run EXCEPT ![r] = Settle(run[r], res)]

Goto(r, label) == run' = [run EXCEPT ![r].pc = label]

\* a gateway call, then the next position
Call(r, op, label) == run' = [run EXCEPT ![r].pc = label, ![r].gw = Append(@, op)]

\* a throw inside one of the inner try blocks: the catch calls logDbError
Throw(r, message) == run' = [run EXCEPT ![r].pc = "log", ![r].err = message]

CallThrow(r, op, message) ==
  run' = [run EXCEPT ![r].pc = "log", ![r].err = message, ![r].gw = Append(@, op)]

\* indices of the aliases whose result carries fulfillmentHold.id, in order
OkIndices(res) == SelectSeq([i \in 1..Len(res) |-> i], LAMBDA i : res[i] = "ok")

\* successfulHoldIds of delivery r
SuccessfulHoldIds(r, res) == [j \in 1..Len(OkIndices(res)) |-> HoldId(r, OkIndices(res)[j])]

\* variant: the batch counts as failed only when every alias reports an error
HasHoldErrorsEvery(res) == Len(res) > 0 /\ \A i \in 1..Len(res) : res[i] = "err"

\* holdErrors.length > 0
HasHoldErrors(res) == \E i \in 1..Len(res) : res[i] = "err"

\* variant: only the first successful hold gets a row
HoldRecordsFirstOnly(r, res) ==
  { [holdId |-> SuccessfulHoldIds(r, res)[j], fulfillmentOrderId |-> FoId(r, j), released |-> FALSE] :
      j \in 1..Len(OkIndices(res)) \cap {1} }

\* holdRecords: the j-th successful hold id is paired with the j-th
\* fulfillment order id of the batch
HoldRecords(r, res) ==
  { [holdId |-> SuccessfulHoldIds(r, res)[j], fulfillmentOrderId |-> FoId(r, j), released |-> FALSE] :
      j \in 1..Len(OkIndices(res)) }

Range(f) == {f[i] : i \in DOMAIN f}

\* lines 40-99: prechecks and pure computation
Start(r) ==
  /\ run[r].pc = "idle"
  /\ run[r].job \in {"waiting", "delayed"}
  /\ \A q \in Runs : q < r => run[q].job \notin {"none", "waiting"}
  /\ MayStart
  /\ \E admin \in BOOLEAN :
       LET reason == Precheck(payload, admin) IN
         IF reason = "ok"
           THEN run' = [run EXCEPT ![r].pc = "refs", ![r].job = "active"]
           ELSE Finish(r, reason)
  /\ UNCHANGED <<payload, appEnabled, req, holds, paymentOrders, hook, cvars, qvars, pvars>>

\* lines 106-149: upserts of core_shops, core_orders, core_customers; their
\* errors are only printed.  A failed shop upsert leaves shopRecord null.
UpsertRefs(r) ==
  /\ run[r].pc = "refs"
  /\ \E shopError \in BOOLEAN :
       run' = [run EXCEPT ![r].pc = "lookup",
                          ![r].isAppEnabled = IF shopError THEN FALSE ELSE appEnabled]
  /\ UNCHANGED <<payload, appEnabled, req, holds, paymentOrders, hook, cvars, qvars, pvars>>

\* lines 101-102: the amount quoted, from split_fulfillment_count
extraParcels(fulfillmentCount) == IF fulfillmentCount - 1 > 0 THEN fulfillmentCount - 1 ELSE 0
additionalShippingAmount(p) ==
  extraParcels(p.fulfillmentCount) * getParcelPriceByShippingLineTitle(p.title, p.countryCode)

\* variant: only COMPLETED short-circuits
AlreadyCompletedOnly(existingStatus) == existingStatus = "COMPLETED"

\* lines 158-163: the terminal-status check on the selected record
AlreadyCompletedOrFailed(existingStatus) == existingStatus \in {"COMPLETED", "FAILED"}

\* lines 152-163: select of the existing request; on a store error data is
\* null and the error is not read
Lookup(r) ==
  /\ run[r].pc = "lookup"
  /\ \E selectError \in BOOLEAN :
       LET existingStatus == IF selectError THEN "NONE" ELSE req.status IN
         IF AlreadyCompletedOrFailed(existingStatus)
           THEN Finish(r, "already_completed_or_failed")
           ELSE run' = [run EXCEPT ![r].pc = "upsert", ![r].existingRecord = existingStatus]
  /\ UNCHANGED <<payload, appEnabled, req, holds, paymentOrders, hook, cvars, qvars, pvars>>

\* variant: the buyer's choice is looked at before the shop setting
InitialStatusChoiceFirst(enabled, choice) ==
  IF ~choice THEN "COMPLETED" ELSE IF ~enabled THEN "APP_DISABLED" ELSE "PENDING"

\* initial status written by the upsert
InitialStatus(enabled, choice) ==
  IF ~enabled THEN "APP_DISABLED" ELSE IF choice THEN "PENDING" ELSE "COMPLETED"

\* lines 171-202: upsert of the request on primary_order_id
UpsertSplitRequest(r) ==
  /\ run[r].pc = "upsert"
  /\ \E splitDbError \in BOOLEAN :
       IF splitDbError
         THEN /\ Finish(r, "raised")
              /\ req' = req
         ELSE /\ req' = [req EXCEPT !.status = InitialStatus(run[r].isAppEnabled, splitChoiceBoolean),
                                    !.userChoice = splitChoiceBoolean,
                                    !.calculatedParcels = payload.fulfillmentCount,
                                    !.additionalShippingAmount = additionalShippingAmount(payload),
                                    !.errorLog = NoLog]
              /\ IF ~splitChoiceBoolean THEN Finish(r, "user_chose_no_split")
                 ELSE IF ~run[r].isAppEnabled THEN Finish(r, "app_disabled")
                 ELSE Goto(r, "foQuery")
  /\ UNCHANGED <<payload, appEnabled, holds, paymentOrders, hook, cvars, qvars, pvars>>

\* lines 204-235: query of the OPEN fulfillment orders
FoQuery(r) ==
  /\ run[r].pc = "foQuery"
  /\ \E outcome \in {"throws", "none", "found"} :
       CASE outcome = "throws" -> Finish(r, "raised")
         [] outcome = "none"   -> CallThrow(r, "foQuery", "noOpenFulfillmentOrder")
         [] outcome = "found"  -> Call(r, "foQuery", "split")
  /\ UNCHANGED <<payload, appEnabled, req, holds, paymentOrders, hook, cvars, qvars, pvars>>

\* lines 259-287: fulfillmentOrderSplit and the ids of the batch
\* (uniqueFulfillmentOrderIds has n entries)
SplitCall(r) ==
  /\ run[r].pc = "split"
  /\ \/ CallThrow(r, "split", "phase1")
     \/ Call(r, "split", "hold")
  /\ UNCHANGED <<payload, appEnabled, req, holds, paymentOrders, hook, cvars, qvars, pvars>>

\* lines 289-342: the bulk hold mutation over the n ids of the batch and the
\* reading of its results
HoldCall(r) ==
  /\ run[r].pc = "hold"
  /\ \/ CallThrow(r, "hold", "holdPhase")
     \/ \E n \in 1..MaxFO : \E res \in [1..n -> {"ok", "err", "none"}] :
          run' = [run EXCEPT ![r].gw = Append(@, "hold"),
                             ![r].holdResults = res,
                             ![r].err = IF HasHoldErrors(res) /\ Len(OkIndices(res)) = 0
                                          THEN "holdPhase" ELSE @,
                             ![r].pc = IF HasHoldErrors(res)
                                         THEN IF Len(OkIndices(res)) > 0 THEN "rollback" ELSE "log"
                                         ELSE "insertHolds"]
  /\ UNCHANGED <<payload, appEnabled, req, holds, paymentOrders, hook, cvars, qvars, pvars>>

\* variant: the rollback names every hold of the batch
RollbackIdsWholeBatch(r, res) == {HoldId(r, i) : i \in 1..Len(res)}

\* the hold ids the rollback mutation names
RollbackIds(r, res) == Range(SuccessfulHoldIds(r, res))

\* lines 323-341: release of the successful holds, then throw
Rollback(r) ==
  /\ run[r].pc = "rollback"
  /\ run' = [run EXCEPT ![r].pc = "log", ![r].err = "holdPhase",
                        ![r].gw = Append(@, "rollback"),
                        ![r].rollbackReq = RollbackIds(r, run[r].holdResults)]
  /\ UNCHANGED <<payload, appEnabled, req, holds, paymentOrders, hook, cvars, qvars, pvars>>

\* variant: a failed insert is only printed
InsertHoldsErrorPrinted(r) ==
  /\ run[r].pc = "insertHolds"
  /\ \/ holds' = holds
     \/ holds' = holds \cup HoldRecords(r, run[r].holdResults)
  /\ Goto(r, "draftCreate")
  /\ UNCHANGED <<payload, appEnabled, req, paymentOrders, hook, cvars, qvars, pvars>>

\* variant: a failed insert releases the holds of the batch before it throws
InsertHoldsCompensating(r) ==
  /\ run[r].pc = "insertHolds"
  /\ \/ /\ run' = [run EXCEPT ![r].pc = "log", ![r].err = "phase1",
                              ![r].gw = Append(@, "rollback"),
                              ![r].rollbackReq = RollbackIds(r, run[r].holdResults)]
        /\ holds' = holds
     \/ /\ holds' = holds \cup HoldRecords(r, run[r].holdResults)
        /\ Goto(r, "draftCreate")
  /\ UNCHANGED <<payload, appEnabled, req, paymentOrders, hook, cvars, qvars, pvars>>

\* lines 344-357: insert of the hold rows
InsertHolds(r) ==
  /\ run[r].pc = "insertHolds"
  /\ \/ /\ Throw(r, "phase1")
        /\ holds' = holds
     \/ /\ holds' = holds \cup HoldRecords(r, run[r].holdResults)
        /\ Goto(r, "draftCreate")
  /\ UNCHANGED <<payload, appEnabled, req, paymentOrders, hook, cvars, qvars, pvars>>

\* variant: the update writes the status only
FailedUpdateStatusOnly(row, errorMessage) == [row EXCEPT !.status = "FAILED"]

\* lines 22-25: the update of logDbError
FailedUpdate(row, errorMessage) ==
  [row EXCEPT !.status = "FAILED", !.errorLog = Log(errorMessage)]

\* variant: the hold rows are deleted along with the update
LogDbErrorDroppingHolds(r) ==
  /\ run[r].pc = "log"
  /\ \E updated \in BOOLEAN :
       req' = IF updated THEN FailedUpdate(req, run[r].err) ELSE req
  /\ Finish(r, "raised")
  /\ holds' = {}
  /\ UNCHANGED <<payload, appEnabled, paymentOrders, hook, cvars, qvars, pvars>>

\* variant: a failed update throws in place of the error caught
LogDbErrorMasking(r) ==
  /\ run[r].pc = "log"
  /\ \E updated \in BOOLEAN :
       /\ req' = IF updated THEN FailedUpdate(req, run[r].err) ELSE req
       /\ run' = [run EXCEPT ![r] = [Settle(run[r], "raised") EXCEPT
                                      !.err = IF updated THEN @ ELSE "logDbError"]]
  /\ UNCHANGED <<payload, appEnabled, holds, paymentOrders, hook, cvars, qvars, pvars>>

\* lines 15-30: best-effort update of the row, then the catch rethrows
LogDbError(r) ==
  /\ run[r].pc = "log"
  /\ \E updated \in BOOLEAN :
       req' = IF updated THEN FailedUpdate(req, run[r].err) ELSE req
  /\ Finish(r, "raised")
  /\ UNCHANGED <<payload, appEnabled, holds, paymentOrders, hook, cvars, qvars, pvars>>

\* lines 401-412: draftOrderCreate
DraftCreate(r) ==
  /\ run[r].pc = "draftCreate"
  /\ \/ CallThrow(r, "draftCreate", "phase2")
     \/ Call(r, "draftCreate", "draftComplete")
  /\ UNCHANGED <<payload, appEnabled, req, holds, paymentOrders, hook, cvars, qvars, pvars>>

\* lines 414-436: draftOrderComplete(paymentPending: true)
DraftComplete(r) ==
  /\ run[r].pc = "draftComplete"
  /\ \/ /\ CallThrow(r, "draftComplete", "phase2")
        /\ paymentOrders' = paymentOrders
     \/ /\ Call(r, "draftComplete", "insertPaymentOrder")
        /\ paymentOrders' = paymentOrders \cup {PaymentOrderId(r)}
  /\ UNCHANGED <<payload, appEnabled, req, holds, hook, cvars, qvars, pvars>>

\* lines 438-450: insert of the payment order into core_orders
InsertPaymentOrder(r) ==
  /\ run[r].pc = "insertPaymentOrder"
  /\ \/ Throw(r, "phase2")
     \/ Goto(r, "invoice")
  /\ UNCHANGED <<payload, appEnabled, req, holds, paymentOrders, hook, cvars, qvars, pvars>>

\* lines 452-483: orderInvoiceSend
InvoiceSend(r) ==
  /\ run[r].pc = "invoice"
  /\ \/ CallThrow(r, "invoice", "phase2")
     \/ Call(r, "invoice", "link")
  /\ UNCHANGED <<payload, appEnabled, req, holds, paymentOrders, hook, cvars, qvars, pvars>>

\* variant: the update writes the status only
LinkOrderStatusOnly(r) ==
  /\ run[r].pc = "link"
  /\ \/ /\ Throw(r, "phase6")
        /\ req' = req
     \/ /\ req' = [req EXCEPT !.status = "AWAITING_PAYMENT"]
        /\ Finish(r, "success")
  /\ UNCHANGED <<payload, appEnabled, holds, paymentOrders, hook, cvars, qvars, pvars>>

\* lines 489-518: the row becomes AWAITING_PAYMENT
LinkOrder(r) ==
  /\ run[r].pc = "link"
  /\ \/ /\ Throw(r, "phase6")
        /\ req' = req
     \/ /\ req' = [req EXCEPT !.status = "AWAITING_PAYMENT",
                              !.paymentOrderId = PaymentOrderId(r),
                              !.draftOrderId = DraftId(r),
                              !.errorLog = NoLog]
        /\ Finish(r, "success")
  /\ UNCHANGED <<payload, appEnabled, holds, paymentOrders, hook, cvars, qvars, pvars>>

handleSplitPrimaryOrderCreated(r) ==
  \/ Start(r) \/ UpsertRefs(r) \/ Lookup(r) \/ UpsertSplitRequest(r)
  \/ FoQuery(r) \/ SplitCall(r) \/ HoldCall(r) \/ Rollback(r) \/ InsertHolds(r)
  \/ LogDbError(r) \/ DraftCreate(r) \/ DraftComplete(r) \/ InsertPaymentOrder(r)
  \/ InvoiceSend(r) \/ LinkOrder(r)

\* ------------------------------------------------ payment-captured webhook
\* line 34: paid or authorized
IsSecured(financial_status) == financial_status \in {"paid", "authorized"}

\* variant: the released flag is not read
ActiveHoldsUnfiltered(rows) == rows

\* line 56: the holds of the request that are not released
ActiveHolds(rows) == {h \in rows : ~h.released}

HoldIdsOf(rows) == {h.holdId : h \in rows}

\* lines 96-98: released, or the hold does not exist any more
IsCleared(outcome) == outcome \in {"ok", "gone"}

\* successfulHoldGids and the holds named in criticalErrors
ClearedIds(res) == {h \in DOMAIN res : IsCleared(res[h])}
CriticalIds(res) == {h \in DOMAIN res : ~IsCleared(res[h])}

\* variant: the update has no "in" filter
MarkReleasedEveryRow(rows, ids) == {[h EXCEPT !.released = TRUE] : h \in rows}

\* lines 108-113: update released = true where fulfillment_hold_id in ids
MarkReleased(rows, ids) ==
  {IF h.holdId \in ids THEN [h EXCEPT !.released = TRUE] ELSE h : h \in rows}

\* lines 115-139: the final status of the request
FinalUpdate(row, critical) ==
  IF critical # {}
    THEN [row EXCEPT !.status = "FAILED",
                     !.errorLog = [kind |-> "partialRelease", holds |-> critical]]
    ELSE [row EXCEPT !.status = "COMPLETED", !.errorLog = NoLog]

\* lines 58-63: no active hold, the request is closed
SelfCorrection(row) == [row EXCEPT !.status = "COMPLETED"]

WGoto(w, label) == hook' = [hook EXCEPT ![w].pc = label]

WFinish(w) == hook' = [hook EXCEPT ![w] = [IdleHook EXCEPT !.pc = "done"]]

\* lines 9-64: checks of the payload, fetch of the request and its holds
PayStart(w) ==
  /\ hook[w].pc = "idle"
  /\ \A v \in PayEvents : v < w => hook[v].pc # "idle"
  /\ MayStart
  /\ paymentOrders # {}
  /\ \E financial_status \in {"paid", "authorized", "pending"}, fetchError \in BOOLEAN :
       LET found == ~fetchError /\ req.status # "NONE" IN
         IF ~IsSecured(financial_status) \/ ~found \/ req.status = "COMPLETED"
           THEN WFinish(w)
           ELSE IF ActiveHolds(holds) = {}
             THEN WGoto(w, "selfCorrect")
             ELSE hook' = [hook EXCEPT ![w].pc = "release", ![w].activeHolds = ActiveHolds(holds)]
  /\ UNCHANGED <<payload, appEnabled, req, holds, paymentOrders, run, cvars, qvars, pvars>>

PaySelfCorrect(w) ==
  /\ hook[w].pc = "selfCorrect"
  /\ req' = SelfCorrection(req)
  /\ WFinish(w)
  /\ UNCHANGED <<payload, appEnabled, holds, paymentOrders, run, cvars, qvars, pvars>>

\* lines 66-105: the bulk release mutation and the reading of its results
PayRelease(w) ==
  /\ hook[w].pc = "release"
  /\ \/ WGoto(w, "systemError")
     \/ \E res \in [HoldIdsOf(hook[w].activeHolds) -> {"ok", "gone", "err"}] :
          hook' = [hook EXCEPT ![w].releaseResults = res,
                               ![w].pc = IF ClearedIds(res) # {} THEN "mark" ELSE "final"]
  /\ UNCHANGED <<payload, appEnabled, req, holds, paymentOrders, run, cvars, qvars, pvars>>

PayMark(w) ==
  /\ hook[w].pc = "mark"
  /\ holds' = MarkReleased(holds, ClearedIds(hook[w].releaseResults))
  /\ WGoto(w, "final")
  /\ UNCHANGED <<payload, appEnabled, req, paymentOrders, run, cvars, qvars, pvars>>

PayFinal(w) ==
  /\ hook[w].pc = "final"
  /\ req' = FinalUpdate(req, CriticalIds(hook[w].releaseResults))
  /\ WFinish(w)
  /\ UNCHANGED <<payload, appEnabled, holds, paymentOrders, run, cvars, qvars, pvars>>

\* lines 140-148: the catch of the release block
PaySystemError(w) ==
  /\ hook[w].pc = "systemError"
  /\ req' = [req EXCEPT !.status = "FAILED", !.errorLog = Log("systemError")]
  /\ WFinish(w)
  /\ UNCHANGED <<payload, appEnabled, holds, paymentOrders, run, cvars, qvars, pvars>>

paymentCaptured(w) ==
  \/ PayStart(w) \/ PaySelfCorrect(w) \/ PayRelease(w) \/ PayMark(w)
  \/ PayFinal(w) \/ PaySystemError(w)

\* --------------------------------------------------- cancellation webhooks
\* variant: both cancellation timestamps are stamped
PrimaryCancelUpdateBoth(row, updated_at) ==
  [row EXCEPT !.status = "CANCELLED", !.primaryOrderCancelledAt = updated_at,
              !.paymentOrderCancelledAt = updated_at]

\* the update of the primary-order-cancelled webhook (lines 42-49)
PrimaryCancelUpdate(row, updated_at) ==
  [row EXCEPT !.status = "CANCELLED", !.primaryOrderCancelledAt = updated_at]

\* the update of the payment-order-cancelled webhook (lines 38-45)
PaymentCancelUpdate(row, updated_at) ==
  [row EXCEPT !.status = "CANCELLED", !.paymentOrderCancelledAt = updated_at]

\* primary-order-cancelled: the select and the update are one step, the
\* update is by row id and does not depend on what the select read
primaryOrderCancelled ==
  /\ primaryCancels < MaxCancelEvents
  /\ Delivered < MaxEvents
  /\ primaryCancels' = primaryCancels + 1
  /\ \E updateError \in BOOLEAN :
       LET updated_at == primaryCancels + 1
           skip == payload.splitChoice = "none" \/ payload.fulfillmentCount <= 1
                   \/ req.status = "NONE" IN
         IF skip \/ updateError
           THEN req' = req /\ cancelResponse' = Response("")
           ELSE req' = PrimaryCancelUpdate(req, updated_at) /\ cancelResponse' = Response("Success")
  /\ UNCHANGED <<payload, appEnabled, holds, paymentOrders, run, hook, paymentCancels, qvars, pvars>>

\* payment-order-cancelled for payment order o, found by payment_order_id
paymentOrderCancelled ==
  /\ paymentCancels < MaxCancelEvents
  /\ Delivered < MaxEvents
  /\ paymentCancels' = paymentCancels + 1
  /\ \E o \in paymentOrders, updateError \in BOOLEAN :
       LET updated_at == paymentCancels + 1
           skip == req.status = "NONE" \/ req.paymentOrderId # o IN
         IF skip \/ updateError
           THEN req' = req /\ cancelResponse' = Response("")
           ELSE req' = PaymentCancelUpdate(req, updated_at) /\ cancelResponse' = Response("Success")
  /\ UNCHANGED <<payload, appEnabled, holds, paymentOrders, run, hook, primaryCancels, qvars, pvars>>

\* ------------------------------------------------- orders/create enqueue
\* variant: add() never ignores a delivery
DeduplicatedNever(eventId, keys) == FALSE

\* add() with deduplication { id: eventId, ttl }: ignored while the key of
\* the id is set; a delivery without an event id carries no such option
Deduplicated(eventId, keys) == eventId # 0 /\ eventId \in keys

\* the webhook route of delivery r: getEventId and ordersCreateQueue.add.
\* After the key has expired the job of an earlier delivery with the same
\* jobId may still be stored (removeOnComplete / removeOnFail keep it by age
\* and count), and then add() ignores the delivery as well.
Enqueue(r) ==
  /\ run[r].job = "none"
  /\ \A q \in Runs : q < r => run[q].job # "none"
  /\ \E eventId \in EventIds \cup {0}, stored \in BOOLEAN :
       LET sameJobId ==
             /\ eventId # 0
             /\ \E q \in Runs :
                  /\ run[q].eventId = eventId
                  /\ \/ run[q].job \in {"waiting", "active", "delayed"}
                     \/ stored /\ run[q].job \in {"completed", "failed"} IN
         IF Deduplicated(eventId, dedup) \/ sameJobId
           THEN /\ run' = [run EXCEPT ![r].job = "dropped", ![r].eventId = eventId]
                /\ dedup' = dedup
           ELSE /\ run' = [run EXCEPT ![r].job = "waiting", ![r].eventId = eventId]
                /\ dedup' = IF eventId # 0 THEN dedup \cup {eventId} ELSE dedup
  /\ UNCHANGED <<payload, appEnabled, req, holds, paymentOrders, hook, cvars, pvars>>

\* the ttl of the deduplication key of eventId has elapsed
Expire(eventId) ==
  /\ eventId \in dedup
  /\ dedup' = dedup \ {eventId}
  /\ UNCHANGED <<payload, appEnabled, req, holds, paymentOrders, run, hook, cvars, pvars>>

\* ---------------------------------------------- calculateFulfillmentSplits
\* variant: the amount is taken as cents already
dollarsToCentsUnscaled(val) == val

\* Math.round(val * 100), on whole currency units
dollarsToCents(val) == val * 100

capCents == dollarsToCents(opts.cap)
absorbPerHeavyCents == dollarsToCents(opts.absorbPerHeavy)
absorbItemsPerHeavy == opts.absorbItemsPerHeavy

\* a line item: price in thousandths of the currency unit, and quantity;
\* its admin_graphql_api_id is given by its position, which counts from 1
Line(price, quantity) == [price |-> price, quantity |-> quantity]
LineItemId(index) == 500 + index

\* prices: free, below half a cent, 10.00 and 20.00 (absorbable), with a third
\* decimal, half the default cap and more, the default cap itself, above it
Prices == {0, 4, 10000, 20000, 33335, 150000, 270000, 300000}
LineSet == {Line(price, quantity) : price \in Prices, quantity \in 0..MaxQuantity}

\* toCents(line.price * quantity): Math.round of the amount times 100
toCents(price, quantity) == (price * quantity + 5) \div 10

\* variant: the last unit takes the whole remainder
UnitPricesRemainderLast(totalCents, quantity) ==
  [i \in 1..quantity |->
     IF i = quantity THEN totalCents - (totalCents \div quantity) * (quantity - 1)
     ELSE totalCents \div quantity]

\* lines 28-33: the first `remainder` units get base + 1, the rest base
UnitPrices(totalCents, quantity) ==
  LET base == totalCents \div quantity
      remainder == totalCents - base * quantity
  IN [i \in 1..quantity |-> IF i - 1 < remainder THEN base + 1 ELSE base]

\* lines 19-41: the units of one line
Explode(line, index) ==
  IF line.quantity <= 0 THEN <<>>
  ELSE [i \in 1..line.quantity |->
          [price |-> UnitPrices(toCents(line.price, line.quantity), line.quantity)[i],
           lineIndex |-> index, lineItemId |-> LineItemId(index), lineItemPrice |-> line.price]]

RECURSIVE ExplodeFrom(_, _)
ExplodeFrom(ls, index) ==
  IF index > Len(ls) THEN <<>> ELSE Explode(ls[index], index) \o ExplodeFrom(ls, index + 1)

\* lines 43-52
ZeroUnits(units) == SelectSeq(units, LAMBDA u : u.price <= 0)
HeavyUnits(units) == SelectSeq(units, LAMBDA u : u.price > 0 /\ u.price > capCents)
NonHeavyUnits(units) == SelectSeq(units, LAMBDA u : u.price > 0 /\ u.price <= capCents)

\* variant: from the second call on, units of equal price change places
BeforeByCall(a, b, descending) ==
  IF a.price = b.price THEN packed
  ELSE IF descending THEN a.price > b.price ELSE a.price < b.price

\* Array.prototype.sort is stable: a unit goes behind the units it does not
\* have to precede
\* the compare functions of the two sorts: (a, b) => a.price - b.price and
\* (a, b) => b.price - a.price
Before(a, b, descending) == IF descending THEN a.price > b.price ELSE a.price < b.price

RECURSIVE InsertSorted(_, _, _)
InsertSorted(u, sorted, descending) ==
  IF sorted = <<>> THEN <<u>>
  ELSE IF Before(u, Head(sorted), descending) THEN <<u>> \o sorted
  ELSE <<Head(sorted)>> \o InsertSorted(u, Tail(sorted), descending)

RECURSIVE SortUnits(_, _, _)
SortUnits(units, n, descending) ==
  IF n = 0 THEN <<>> ELSE InsertSorted(units[n], SortUnits(units, n - 1, descending), descending)

CheapestFirst(units) == SortUnits(units, Len(units), FALSE)
DearestFirst(units) == SortUnits(units, Len(units), TRUE)

\* variant: every heavy unit goes into the parcel of the first
heavyParcelsOneForAll(heavyUnits) ==
  IF heavyUnits = <<>> THEN <<>>
  ELSE <<[anchor |-> Head(heavyUnits), absorbed |-> Tail(heavyUnits)]>>

\* lines 55-58: one parcel per heavy unit
heavyParcels(heavyUnits) ==
  [k \in 1..Len(heavyUnits) |-> [anchor |-> heavyUnits[k], absorbed |-> <<>>]]

\* variant: a parcel takes the cheapest unit only
AbsorbCheapestOnly(toAbsorb, i, budgetItems, budgetCents, absorbed, rest) ==
  IF toAbsorb # <<>> /\ budgetItems > 0 /\ budgetCents >= Head(toAbsorb).price
    THEN [absorbed |-> <<Head(toAbsorb)>>, rest |-> Tail(toAbsorb)]
    ELSE [absorbed |-> <<>>, rest |-> toAbsorb]

\* lines 66-79: one parcel takes units, cheapest first, within its budgets
RECURSIVE Absorb(_, _, _, _, _, _)
Absorb(toAbsorb, i, budgetItems, budgetCents, absorbed, rest) ==
  IF i > Len(toAbsorb) THEN [absorbed |-> absorbed, rest |-> rest]
  ELSE IF budgetItems > 0 /\ budgetCents >= toAbsorb[i].price
    THEN Absorb(toAbsorb, i + 1, budgetItems - 1, budgetCents - toAbsorb[i].price,
                Append(absorbed, toAbsorb[i]), rest)
    ELSE Absorb(toAbsorb, i + 1, budgetItems, budgetCents, absorbed, Append(rest, toAbsorb[i]))

\* variant: the units a parcel absorbed stay in the pool
RECURSIVE AbsorptionKeepingPool(_, _, _)
AbsorptionKeepingPool(parcels, k, toAbsorb) ==
  IF k > Len(parcels) THEN [heavyParcels |-> parcels, residualUnits |-> toAbsorb]
  ELSE LET a == Absorb(toAbsorb, 1, absorbItemsPerHeavy, absorbPerHeavyCents, <<>>, <<>>) IN
    AbsorptionKeepingPool([parcels EXCEPT ![k].absorbed = @ \o a.absorbed], k + 1, toAbsorb)

\* lines 65-84: the parcels in turn; what is left are the residual units
RECURSIVE Absorption(_, _, _)
Absorption(parcels, k, toAbsorb) ==
  IF k > Len(parcels) THEN [heavyParcels |-> parcels, residualUnits |-> toAbsorb]
  ELSE LET a == Absorb(toAbsorb, 1, absorbItemsPerHeavy, absorbPerHeavyCents, <<>>, <<>>) IN
    Absorption([parcels EXCEPT ![k].absorbed = @ \o a.absorbed], k + 1, a.rest)

\* variant: a unit goes into the first bin whatever its capacity
PlaceAlwaysFirst(unit, bins, b) ==
  IF bins = <<>> THEN <<[capacity |-> capCents - unit.price, items |-> <<unit>>]>>
  ELSE [bins EXCEPT ![1] = [capacity |-> @.capacity - unit.price, items |-> Append(@.items, unit)]]

\* lines 91-107: the first bin with room from bin b on, else a new bin
RECURSIVE Place(_, _, _)
Place(unit, bins, b) ==
  IF b > Len(bins)
    THEN Append(bins, [capacity |-> capCents - unit.price, items |-> <<unit>>])
  ELSE IF bins[b].capacity >= unit.price
    THEN [bins EXCEPT ![b] = [capacity |-> @.capacity - unit.price, items |-> Append(@.items, unit)]]
  ELSE Place(unit, bins, b + 1)

\* lines 87-108: first fit over the residual units, dearest first
RECURSIVE ResidualBins(_, _)
ResidualBins(units, n) ==
  IF n = 0 THEN <<>> ELSE Place(units[n], ResidualBins(units, n - 1), 1)

\* consolidateUnits: one entry per line, in the order of first appearance
SameKey(item, u) ==
  item.lineIndex = u.lineIndex /\ item.lineItemId = u.lineItemId /\ item.lineItemPrice = u.lineItemPrice

RECURSIVE consolidateUnits(_)
consolidateUnits(units) ==
  IF units = <<>> THEN <<>>
  ELSE LET u == units[Len(units)]
           map == consolidateUnits(SubSeq(units, 1, Len(units) - 1))
           hit == {k \in 1..Len(map) : SameKey(map[k], u)}
       IN IF hit # {}
            THEN [k \in 1..Len(map) |-> IF k \in hit THEN [map[k] EXCEPT !.quantity = @ + 1] ELSE map[k]]
            ELSE Append(map, [lineIndex |-> u.lineIndex, quantity |-> 1,
                              lineItemId |-> u.lineItemId, lineItemPrice |-> u.lineItemPrice])

\* variant: one unit per entry, whatever its quantity
expandParcelOnce(parcel) ==
  [k \in 1..Len(parcel) |->
     [price |-> 0, lineIndex |-> parcel[k].lineIndex,
      lineItemId |-> parcel[k].lineItemId, lineItemPrice |-> parcel[k].lineItemPrice]]

\* expandParcel: quantity units per entry, their price set to 0
RECURSIVE expandParcel(_)
expandParcel(parcel) ==
  IF parcel = <<>> THEN <<>>
  ELSE [i \in 1..Head(parcel).quantity |->
          [price |-> 0, lineIndex |-> Head(parcel).lineIndex,
           lineItemId |-> Head(parcel).lineItemId, lineItemPrice |-> Head(parcel).lineItemPrice]]
       \o expandParcel(Tail(parcel))

\* lines 43-108: the unit lists handed to consolidateUnits at lines 115 and
\* 120, heavy parcels first
PackedUnits(units) ==
  LET absorption == Absorption(heavyParcels(HeavyUnits(units)), 1, CheapestFirst(NonHeavyUnits(units)))
      residualUnits == DearestFirst(absorption.residualUnits)
      residualBins == ResidualBins(residualUnits, Len(residualUnits))
  IN [k \in 1..Len(absorption.heavyParcels) |->
        <<absorption.heavyParcels[k].anchor>> \o absorption.heavyParcels[k].absorbed]
     \o [k \in 1..Len(residualBins) |-> residualBins[k].items]

\* variant: the zero-price units always make a parcel of their own
WithZeroUnitsOwnParcel(parcels, zeroUnits) ==
  IF zeroUnits = <<>> THEN parcels ELSE Append(parcels, consolidateUnits(zeroUnits))

\* lines 123-131: the zero-price units join the first parcel, or make one
WithZeroUnits(parcels, zeroUnits) ==
  IF zeroUnits = <<>> THEN parcels
  ELSE IF parcels # <<>>
    THEN [parcels EXCEPT ![1] = consolidateUnits(expandParcel(@) \o zeroUnits)]
    ELSE <<consolidateUnits(zeroUnits)>>

calculateFulfillmentSplits(ls) ==
  LET units == ExplodeFrom(ls, 1)
      packedUnits == PackedUnits(units)
  IN WithZeroUnits([k \in 1..Len(packedUnits) |-> consolidateUnits(packedUnits[k])], ZeroUnits(units))

\* -------------------------------------------------- recommendFulfillmentCount
\* the count the checkout extension shows and stores in split_fulfillment_count;
\* a line total is the price times the quantity
Min(a, b) == IF a < b THEN a ELSE b

\* lines 20-41: the unit prices of a line as [price, count] pairs
UnitTypes(line) ==
  IF line.quantity <= 0 THEN <<>>
  ELSE LET lineCents == toCents(line.price, line.quantity)
           base == lineCents \div line.quantity
           remainder == lineCents - base * line.quantity
       IN (IF remainder > 0 THEN <<[price |-> base + 1, count |-> remainder]>> ELSE <<>>)
          \o (IF line.quantity - remainder > 0
                THEN <<[price |-> base, count |-> line.quantity - remainder]>> ELSE <<>>)

RECURSIVE UnitTypesFrom(_, _)
UnitTypesFrom(ls, index) ==
  IF index > Len(ls) THEN <<>> ELSE UnitTypes(ls[index]) \o UnitTypesFrom(ls, index + 1)

\* lines 79-99: the pooled budgets of all heavy units, cheapest types first
RECURSIVE AbsorbTypes(_, _, _, _, _)
AbsorbTypes(types, i, itemsBudget, centsBudget, residual) ==
  IF i > Len(types) THEN residual
  ELSE LET price == types[i].price
           take == IF itemsBudget > 0 /\ centsBudget > 0
                     THEN Min(Min(centsBudget \div price, types[i].count), itemsBudget)
                     ELSE 0
           left == types[i].count - take
       IN AbsorbTypes(types, i + 1, itemsBudget - take, centsBudget - take * price,
                      IF left > 0 THEN Append(residual, [price |-> price, count |-> left])
                      ELSE residual)

\* lines 110-117: units of one type into the open bins, in order
RECURSIVE FillBins(_, _, _, _)
FillBins(bins, b, price, count) ==
  IF b > Len(bins) \/ count <= 0 THEN [bins |-> bins, count |-> count]
  ELSE LET put == Min(bins[b] \div price, count) IN
    FillBins([bins EXCEPT ![b] = @ - put * price], b + 1, price, count - put)

\* lines 119-130: new bins for what is left of the type
NewBins(price, count) ==
  LET perBin == capCents \div price
      fullBins == count \div perBin
      remItems == count - fullBins * perBin
  IN [k \in 1..fullBins |-> capCents - perBin * price]
     \o (IF remItems > 0 THEN <<capCents - remItems * price>> ELSE <<>>)

\* lines 104-131
RECURSIVE PackTypes(_, _)
PackTypes(types, n) ==
  IF n = 0 THEN <<>>
  ELSE LET filled == FillBins(PackTypes(types, n - 1), 1, types[n].price, types[n].count) IN
    IF filled.count <= 0 THEN filled.bins
    ELSE filled.bins \o NewBins(types[n].price, filled.count)

recommendFulfillmentCount(ls) ==
  LET nonZeroTypes == SelectSeq(UnitTypesFrom(ls, 1), LAMBDA t : t.price > 0)
      heavyTypes == SelectSeq(nonZeroTypes, LAMBDA t : t.price > capCents)
      heavyUnitCount == IF heavyTypes = <<>> THEN 0
                        ELSE LET RECURSIVE Total(_)
                                 Total(n) == IF n = 0 THEN 0 ELSE heavyTypes[n].count + Total(n - 1)
                             IN Total(Len(heavyTypes))
      nonHeavyTypes == CheapestFirst(SelectSeq(nonZeroTypes, LAMBDA t : t.price <= capCents))
      residualTypes == DearestFirst(AbsorbTypes(nonHeavyTypes, 1, heavyUnitCount * absorbItemsPerHeavy,
                                                heavyUnitCount * absorbPerHeavyCents, <<>>))
      bins == PackTypes(residualTypes, Len(residualTypes))
  IN [fulfillmentCount |-> heavyUnitCount + Len(bins)]

\* the line items of the payload, one more line; the checkout recomputes its
\* count when the lines change
AddLine ==
  /\ ~packed
  /\ Len(lines) < MaxLines
  /\ \E line \in LineSet :
       /\ lines' = Append(lines, line)
       /\ recommended' = recommendFulfillmentCount(Append(lines, line)).fulfillmentCount
  /\ UNCHANGED <<opts, packed, allUnits, parcelUnits, finalParcels, again>>
  /\ UNCHANGED <<payload, appEnabled, req, holds, paymentOrders, run, hook, cvars, qvars>>

\* a call of calculateFulfillmentSplits(lines, opts); the handler calls it at
\* line 87 on the line items of the payload, without opts
Pack ==
  /\ ~packed
  /\ packed' = TRUE
  /\ allUnits' = ExplodeFrom(lines, 1)
  /\ parcelUnits' = PackedUnits(ExplodeFrom(lines, 1))
  /\ finalParcels' = calculateFulfillmentSplits(lines)
  /\ UNCHANGED <<lines, opts, again, recommended>>
  /\ UNCHANGED <<payload, appEnabled, req, holds, paymentOrders, run, hook, cvars, qvars>>

\* a second call on the same line items with the same opts
PackAgain ==
  /\ packed
  /\ ~again.called
  /\ again' = [called |-> TRUE, parcels |-> calculateFulfillmentSplits(lines)]
  /\ UNCHANGED <<lines, opts, packed, allUnits, parcelUnits, finalParcels, recommended>>
  /\ UNCHANGED <<payload, appEnabled, req, holds, paymentOrders, run, hook, cvars, qvars>>

\* ------------------------------------------------------------ specification
Next ==
  \/ \E r \in Runs : handleSplitPrimaryOrderCreated(r)
  \/ \E w \in PayEvents : paymentCaptured(w)
  \/ primaryOrderCancelled
  \/ paymentOrderCancelled

Spec == Init /\ [][Next]_vars

\* the queue of the orders/create job: deliveries of the webhook are enqueued
\* and the worker runs the handler on the jobs
QueueInit ==
  /\ payload \in Payloads
  /\ appEnabled \in BOOLEAN
  /\ req = NoRow
  /\ holds = {}
  /\ paymentOrders = {}
  /\ run = [r \in Runs |-> [IdleRun EXCEPT !.job = "none"]]
  /\ hook = [w \in PayEvents |-> IdleHook]
  /\ primaryCancels = 0
  /\ paymentCancels = 0
  /\ cancelResponse = Response("")
  /\ dedup = {}
  /\ lines = <<>>
  /\ packed = FALSE
  /\ allUnits = <<>>
  /\ parcelUnits = <<>>
  /\ finalParcels = <<>>
  /\ opts = DefaultOpts
  /\ again = NotCalled
  /\ recommended = 0

QueueNext ==
  \/ \E r \in Runs : Enqueue(r)
  \/ \E eventId \in EventIds : Expire(eventId)
  \/ \E r \in Runs : handleSplitPrimaryOrderCreated(r)

QueueSpec == QueueInit /\ [][QueueNext]_vars

\* calculateFulfillmentSplits on its own, over line items drawn from LineSet
PackInit ==
  /\ payload \in {p \in Payloads : Precheck(p, TRUE) = "ok" /\ p.splitChoice = "yes"}
  /\ appEnabled = TRUE
  /\ req = NoRow
  /\ holds = {}
  /\ paymentOrders = {}
  /\ run = [r \in Runs |-> IdleRun]
  /\ hook = [w \in PayEvents |-> IdleHook]
  /\ primaryCancels = 0
  /\ paymentCancels = 0
  /\ cancelResponse = Response("")
  /\ dedup = {}
  /\ lines = <<>>
  /\ packed = FALSE
  /\ allUnits = <<>>
  /\ parcelUnits = <<>>
  /\ finalParcels = <<>>
  /\ opts \in {DefaultOpts, LowCapOpts}
  /\ again = NotCalled
  /\ recommended = 0

PackNext == AddLine \/ Pack \/ PackAgain

PackSpec == PackInit /\ [][PackNext]_vars

\* the handler on an order: the line items of the payload, the call of
\* calculateFulfillmentSplits on them (line 87) and the deliveries
OrderLineItems == { <<Line(300000, 2)>>, <<Line(300000, 2), Line(40000, 3)>> }

OrderInit ==
  /\ payload = Payload(TRUE, TRUE, TRUE, "yes", 2, Title({1}), "CN")
  /\ appEnabled \in BOOLEAN
  /\ req = NoRow
  /\ holds = {}
  /\ paymentOrders = {}
  /\ run = [r \in Runs |-> IdleRun]
  /\ hook = [w \in PayEvents |-> IdleHook]
  /\ primaryCancels = 0
  /\ paymentCancels = 0
  /\ cancelResponse = Response("")
  /\ dedup = {}
  /\ lines \in OrderLineItems
  /\ packed = FALSE
  /\ allUnits = <<>>
  /\ parcelUnits = <<>>
  /\ finalParcels = <<>>
  /\ opts = DefaultOpts
  /\ again = NotCalled
  /\ recommended = recommendFulfillmentCount(lines).fulfillmentCount

OrderNext ==
  \/ Pack
  \/ \E r \in Runs : handleSplitPrimaryOrderCreated(r)

OrderSpec == OrderInit /\ [][OrderNext]_vars

\* the worker keeps running a handler it has started: every await of the
\* handler returns or throws
FairSpec == Spec /\ \A r \in Runs : WF_vars(handleSplitPrimaryOrderCreated(r))

TypeOK ==
  /\ req.status \in Statuses \cup {"NONE"}
  /\ \A h \in holds : h.released \in BOOLEAN


\* ================================================================== claims
\* what the claims speak about
Terminal(s) == s \in {"COMPLETED", "FAILED", "CANCELLED"}
HoldFailed(r) == \E i \in DOMAIN run[r].holdResults : run[r].holdResults[i] = "err"
HoldSucceeded(r) == {HoldId(r, i) : i \in {j \in DOMAIN run[r].holdResults : run[r].holdResults[j] = "ok"}}
HoldIdsOfRun(r) == {HoldId(r, i) : i \in DOMAIN run[r].holdResults}
Calls(r) == Range(run[r].gw)
Unreleased == {h.holdId : h \in {x \in holds : x.released = FALSE}}
\* a release answered "not found" / "not on hold" counts as done, as in the webhook
ReleaseFailed(w) == {h \in DOMAIN hook[w].releaseResults : hook[w].releaseResults[h] = "err"}
ReleaseDone(w) == DOMAIN hook[w].releaseResults \ ReleaseFailed(w)
HookStep(w, from, to) == hook[w].pc = from /\ hook'[w].pc \in to

\* C1: a delivery of the order-created event whose select returned the request
\* in AWAITING_PAYMENT, after another delivery ran to completion, issues no
\* split, no hold and no draftOrderCreate call, and calculatedParcels keeps
\* its value.
C1_RedeliveryIdempotent ==
  \A r \in Runs :
    (run[r].existingRecord = "AWAITING_PAYMENT" /\ \E q \in Runs \ {r} : run[q].result = "success")
      => /\ Calls(r) \cap {"split", "hold", "draftCreate"} = {}
         /\ req.calculatedParcels = payload.fulfillmentCount

\* C2: when a result of the hold batch carries an error, the rollback names
\* exactly the hold ids that succeeded in that batch, it is issued before the
\* handler writes FAILED (the write is the step that leaves logDbError), and
\* the handler ends by raising.
C2_RollbackExactlySuccessful ==
  [][\A r \in Runs :
       (run[r].pc = "log" /\ HoldFailed(r)) =>
         /\ run[r].rollbackReq = HoldSucceeded(r)
         /\ (HoldSucceeded(r) # {}) = ("rollback" \in Calls(r))
         /\ run'[r] # run[r] => run'[r].pc = "done" /\ run'[r].result = "raised"]_vars

C2_Witness ==
  \E r \in Runs :
    /\ run[r].pc = "log" /\ HoldFailed(r)
    /\ HoldSucceeded(r) # {} /\ run[r].rollbackReq = HoldSucceeded(r)

C4_TerminalImmutable ==
  [][Terminal(req.status) =>
       req' = [req EXCEPT !.primaryOrderCancelledAt = req'.primaryOrderCancelledAt,
                          !.paymentOrderCancelledAt = req'.paymentOrderCancelledAt]]_vars

\* C5: of two deliveries of the order-created event that are in the handler
\* at the same time, at most one issues the split, at most one the hold batch
\* and at most one the draftOrderCreate call.
C5_ConcurrentDeliveriesSerialize ==
  \A op \in {"split", "hold", "draftCreate"} :
    Cardinality({r \in Runs : op \in Calls(r)}) <= 1

\* C6: a delivery whose hold batch contained an error has inserted no
\* FulfillmentHold row.
C6_NoHoldRowsAfterHoldError ==
  \A r \in Runs : HoldFailed(r) => \A h \in holds : h.holdId \notin HoldIdsOfRun(r)

C6_Witness ==
  \E r \in Runs : HoldFailed(r) /\ HoldSucceeded(r) # {} /\ run[r].pc = "log"

\* the part of C7 that the code and the claim agree on
C7_Release(w) ==
  /\ HookStep(w, "idle", {"release", "selfCorrect"}) => req.status # "COMPLETED"
  /\ HookStep(w, "idle", {"release"}) =>
       /\ HoldIdsOf(hook'[w].activeHolds) = Unreleased
       /\ \A h \in hook'[w].activeHolds : h.released = FALSE
  /\ HookStep(w, "idle", {"selfCorrect"}) => Unreleased = {}
  /\ HookStep(w, "release", {"mark", "final"}) =>
       DOMAIN hook'[w].releaseResults = HoldIdsOf(hook[w].activeHolds)
  /\ (HookStep(w, "release", {"mark", "final"}) /\ ReleaseFailed(w)' = {}) => hook'[w].pc = "mark"
  /\ (HookStep(w, "mark", {"final"}) /\ ReleaseFailed(w) = {}) =>
       \A id \in HoldIdsOf(hook[w].activeHolds) :
         \E h \in holds' : h.holdId = id /\ h.released
  /\ (HookStep(w, "final", {"done"}) /\ ReleaseFailed(w) = {}) =>
       req'.status = "COMPLETED" /\ req'.errorLog = NoLog

C9_CancelStampsOwnTimestamp ==
  [][/\ primaryCancels' # primaryCancels =>
          /\ cancelResponse'.status = 200
          /\ IF cancelResponse'.body = "Success"
               THEN /\ req.status # "NONE"
                    /\ req' = [req EXCEPT !.status = "CANCELLED",
                                          !.primaryOrderCancelledAt = primaryCancels']
                    /\ req'.paymentOrderCancelledAt = req.paymentOrderCancelledAt
               ELSE req' = req
     /\ paymentCancels' # paymentCancels =>
          /\ cancelResponse'.status = 200
          /\ IF cancelResponse'.body = "Success"
               THEN /\ req.paymentOrderId \in paymentOrders
                    /\ req' = [req EXCEPT !.status = "CANCELLED",
                                          !.paymentOrderCancelledAt = paymentCancels']
                    /\ req'.primaryOrderCancelledAt = req.primaryOrderCancelledAt
               ELSE req' = req]_vars

C9_Witness ==
  /\ req.status = "CANCELLED"
  /\ cancelResponse = Response("Success")
  /\ req.primaryOrderCancelledAt # NoRow.primaryOrderCancelledAt
  /\ req.paymentOrderCancelledAt = NoRow.paymentOrderCancelledAt

\* C10: a delivery of the order-created event whose select returned the
\* request in CANCELLED calls no gateway operation and the status stays
\* CANCELLED.
C10_CancelledShortCircuits ==
  \A r \in Runs :
    run[r].existingRecord = "CANCELLED" => run[r].gw = <<>> /\ req.status = "CANCELLED"

\* C11: a delivery whose payload lacks the order id, GID or name, or the
\* customer id, or has no shipping lines, or has no split_choice or a count
\* of at most 1, or whose shipping title and country resolve to no level or
\* no parcel price, returns a skip (it does not raise), writes nothing to the
\* store and calls no gateway operation.
C11_Rejected ==
  \/ ~payload.fieldsOk \/ ~payload.customerOk \/ ~payload.hasShippingLines
  \/ payload.splitChoice = "none" \/ payload.fulfillmentCount <= 1
  \/ getShippingLineLevel(payload.title, payload.countryCode) = 0
  \/ getParcelPriceByShippingLineTitle(payload.title, payload.countryCode) = 0

SkipReasons ==
  {"no_admin", "missing_order_fields", "missing_customer", "no_shipping_lines",
   "no_split_required", "unknown_shipping_level_or_price"}

C11_PrecheckSkips ==
  [][\A r \in Runs :
       (C11_Rejected /\ run[r].pc = "idle" /\ run'[r].pc # "idle") =>
         /\ run'[r].pc = "done"
         /\ run'[r].result \in SkipReasons
         /\ run'[r].gw = <<>>
         /\ req' = req /\ holds' = holds /\ paymentOrders' = paymentOrders]_vars

C11_Witness ==
  \E r \in Runs :
    /\ run[r].pc = "done" /\ run[r].result = "unknown_shipping_level_or_price"
    /\ payload.title.present /\ payload.countryCode = "CN"
    /\ req = NoRow /\ holds = {}

\* C12: an order-created event whose split_choice is "no" is rejected at
\* precheck: no delivery of it goes past the prechecks and the request row
\* of the order is neither created nor changed.
C12_DeclinedRejectedAtPrecheck ==
  payload.splitChoice = "no" =>
    /\ req = NoRow
    /\ \A r \in Runs : run[r].pc \in {"idle", "done"}

GatewaySteps == {"split", "hold", "rollback", "draftCreate", "draftComplete", "invoice"}

C14_GatewayFailureLoggedAndRaised ==
  [][\A r \in Runs :
       /\ (run[r].pc \in GatewaySteps /\ run'[r].pc # run[r].pc) =>
            /\ run'[r].pc # "done"
            /\ run'[r].pc = "log" => run'[r].err \in {"phase1", "holdPhase", "phase2"}
            /\ HoldFailed(r)' => run'[r].pc \in {"rollback", "log"}
       /\ (run[r].pc = "log" /\ run'[r].pc # "log") =>
            /\ run'[r].pc = "done" /\ run'[r].result = "raised"
            /\ \/ req' = req
               \/ req' = [req EXCEPT !.status = "FAILED", !.errorLog = Log(run[r].err)]]_vars

C14_Witness ==
  \E r \in Runs :
    /\ run[r].pc = "done" /\ run[r].result = "raised"
    /\ req.status = "FAILED" /\ req.errorLog = Log("phase2")
    /\ paymentOrders = {} /\ holds # {}

\* C15: a job whose handler raised is moved to the failed set only after it
\* has been attempted again at least once.
C15_RetriedBeforeFailed ==
  \A r \in Runs : run[r].job = "failed" => run[r].attemptsMade >= 2

\* C16: a delivery that carries an event id whose deduplication key is set
\* (an earlier delivery with that id was enqueued and the ttl has not
\* elapsed since) is dropped by add(), and a dropped delivery never reaches
\* the handler; an accepted delivery with an event id sets the key.
C16_DuplicateDropped ==
  [][\A r \in Runs :
       /\ (run[r].job = "none" /\ run'[r].job # "none" /\ run'[r].eventId \in dedup) =>
            run'[r].job = "dropped"
       /\ (run[r].job = "none" /\ run'[r].job = "waiting" /\ run'[r].eventId # 0) =>
            run'[r].eventId \in dedup'
       /\ run[r].job = "dropped" => run'[r] = run[r]]_vars

C16_Witness ==
  \E r, q \in Runs :
    /\ run[r].job = "dropped" /\ run[r].pc = "idle"
    /\ run[q].eventId = run[r].eventId /\ run[q].job = "completed"
    /\ run[q].result = "success" /\ run[r].eventId \in dedup

\* what the claims about calculateFulfillmentSplits speak about
RECURSIVE SumOf(_)
SumOf(numbers) == IF numbers = <<>> THEN 0 ELSE Head(numbers) + SumOf(Tail(numbers))
SumPrices(units) == SumOf([k \in 1..Len(units) |-> units[k].price])
RecordedQuantity(parcels, id) ==
  SumOf([k \in 1..Len(parcels) |->
           SumOf([e \in 1..Len(parcels[k]) |->
                    IF parcels[k][e].lineItemId = id THEN parcels[k][e].quantity ELSE 0])])
IsHeavy(u) == u.price > capCents
HeavyIn(units) == {k \in 1..Len(units) : IsHeavy(units[k])}
\* the units of the parcels returned: the zero-price units are in the first
ParcelsAsUnits ==
  IF ZeroUnits(allUnits) = <<>> THEN parcelUnits
  ELSE IF parcelUnits = <<>> THEN <<ZeroUnits(allUnits)>>
  ELSE [parcelUnits EXCEPT ![1] = @ \o ZeroUnits(allUnits)]
UnitsMatchOutput ==
  /\ Len(finalParcels) = Len(ParcelsAsUnits)
  /\ \A k \in 1..Len(finalParcels) : finalParcels[k] = consolidateUnits(ParcelsAsUnits[k])
UnitsOfLine(i) == SelectSeq(allUnits, LAMBDA u : u.lineIndex = i)

C18_NonHeavyParcelWithinCap ==
  packed =>
    /\ UnitsMatchOutput
    /\ \A k \in 1..Len(ParcelsAsUnits) :
         HeavyIn(ParcelsAsUnits[k]) = {} => SumPrices(ParcelsAsUnits[k]) <= capCents

C18_Witness ==
  /\ packed
  /\ \E k, m \in 1..Len(parcelUnits) :
       /\ k # m /\ HeavyIn(parcelUnits[k]) = {} /\ HeavyIn(parcelUnits[m]) = {}
       /\ Len(parcelUnits[k]) >= 2
       /\ SumPrices(parcelUnits[k]) + parcelUnits[m][1].price > capCents

\* C19: no returned parcel holds two heavy units; every heavy unit is the
\* anchor of a parcel of its own, so there are at least as many parcels as
\* heavy units.
C19_OneHeavyPerParcel ==
  packed =>
    /\ UnitsMatchOutput
    /\ \A k \in 1..Len(ParcelsAsUnits) : Cardinality(HeavyIn(ParcelsAsUnits[k])) <= 1
    /\ Len(finalParcels) >= Len(HeavyUnits(allUnits))
    /\ \A k \in 1..Len(HeavyUnits(allUnits)) : parcelUnits[k][1] = HeavyUnits(allUnits)[k]

C19_Witness ==
  /\ packed
  /\ Len(HeavyUnits(allUnits)) >= 2
  /\ Len(parcelUnits[1]) >= 2 /\ Len(parcelUnits) > Len(HeavyUnits(allUnits))

\* C20: the units of a line with quantity q > 0 carry integer prices that
\* add up to the total of the line in cents; the first `remainder` units
\* carry one cent more than the others, and no two differ by more than one
\* cent.
C20_CentExactExplode ==
  packed =>
    \A i \in 1..Len(lines) :
      lines[i].quantity > 0 =>
        LET q == lines[i].quantity
            units == UnitsOfLine(i)
            totalCents == toCents(lines[i].price, q)
            low == units[q].price
            remainder == totalCents - low * q
        IN /\ Len(units) = q
           /\ SumPrices(units) = totalCents
           /\ remainder \in 0..(q - 1)
           /\ \A j \in 1..q : units[j].price = IF j <= remainder THEN low + 1 ELSE low
           /\ \A j, k \in 1..q : units[j].price - units[k].price \in {-1, 0, 1}

C20_Witness ==
  /\ packed
  /\ \E i \in 1..Len(lines) :
       /\ lines[i].quantity = 3
       /\ toCents(lines[i].price, 3) % 3 = 2
       /\ UnitsOfLine(i)[2].price = UnitsOfLine(i)[3].price + 1

\* what the later claims about calculateFulfillmentSplits speak about
PricedUnits == SelectSeq(allUnits, LAMBDA u : u.price > 0)
FreeUnits == SelectSeq(allUnits, LAMBDA u : u.price <= 0)
UnitsWithPrice(cents) == SelectSeq(allUnits, LAMBDA u : u.price = cents)
CountOfLine(units, i) == Len(SelectSeq(units, LAMBDA u : u.lineIndex = i))
QuantityIn(parcel, i) ==
  SumOf([e \in 1..Len(parcel) |-> IF parcel[e].lineIndex = i THEN parcel[e].quantity ELSE 0])
PositiveQuantities == SumOf([i \in 1..Len(lines) |-> IF lines[i].quantity > 0 THEN lines[i].quantity ELSE 0])

\* C22: a single line of quantity 4 at a unit price of 1000 cents, packed
\* under a cap of 2700 cents (opts.cap 27), gives exactly two parcels of
\* quantity 2 each.
C22_FourUnitsTwoParcels ==
  (packed /\ lines = <<Line(10000, 4)>> /\ opts = LowCapOpts) =>
    /\ Len(finalParcels) = 2
    /\ \A k \in 1..2 :
         /\ Len(finalParcels[k]) = 1
         /\ finalParcels[k][1].quantity = 2
         /\ finalParcels[k][1].lineItemId = LineItemId(1)

C22_Witness ==
  /\ packed /\ lines = <<Line(10000, 4)>> /\ opts = LowCapOpts
  /\ capCents = 2700 /\ \A u \in Range(allUnits) : u.price = 1000
  /\ Len(parcelUnits) = 2

\* C23: one unit of 30000 cents and two units of 2000 cents, packed under a
\* cap of 27000 cents with an absorption budget of 6000 cents and 2 items,
\* give exactly one parcel: the heavy unit and both cheap units, and no
\* residual parcel.
C23_AnchorAbsorbsBoth ==
  (/\ packed /\ opts = DefaultOpts /\ Len(allUnits) = 3
   /\ Len(UnitsWithPrice(30000)) = 1 /\ Len(UnitsWithPrice(2000)) = 2) =>
    /\ Len(finalParcels) = 1
    /\ Len(parcelUnits) = 1
    /\ parcelUnits[1] = UnitsWithPrice(30000) \o UnitsWithPrice(2000)
    /\ SumOf([e \in 1..Len(finalParcels[1]) |-> finalParcels[1][e].quantity]) = 3

C23_Witness ==
  /\ packed /\ opts = DefaultOpts
  /\ lines = <<Line(20000, 2), Line(300000, 1)>>
  /\ Len(finalParcels) = 1
  /\ finalParcels[1][1].lineItemId = LineItemId(2) /\ finalParcels[1][2].quantity = 2

\* C24: zero-price units open no parcel when a priced unit exists, they are
\* added to the first parcel returned; when every unit is zero-price there
\* is exactly one parcel holding all of them; a line with quantity <= 0
\* contributes no unit; without units no parcel is returned.
C24_ZeroPriceUnits ==
  packed =>
    /\ Len(allUnits) = PositiveQuantities
    /\ \A i \in 1..Len(lines) : lines[i].quantity <= 0 => CountOfLine(allUnits, i) = 0
    /\ allUnits = <<>> => finalParcels = <<>>
    /\ (PricedUnits = <<>> /\ FreeUnits # <<>>) =>
         /\ Len(finalParcels) = 1
         /\ \A i \in 1..Len(lines) : QuantityIn(finalParcels[1], i) = CountOfLine(allUnits, i)
    /\ PricedUnits # <<>> =>
         /\ Len(finalParcels) = Len(parcelUnits)
         /\ \A k \in 1..Len(parcelUnits) : \A u \in Range(parcelUnits[k]) : u.price > 0
         /\ \A i \in 1..Len(lines) :
              /\ QuantityIn(finalParcels[1], i) =
                   CountOfLine(parcelUnits[1], i) + CountOfLine(FreeUnits, i)
              /\ \A k \in 2..Len(finalParcels) :
                   QuantityIn(finalParcels[k], i) = CountOfLine(parcelUnits[k], i)

C24_Witness ==
  /\ packed
  /\ Len(FreeUnits) >= 2 /\ Len(parcelUnits) >= 2
  /\ \E i \in 1..Len(lines) : lines[i].quantity = 0
  /\ Len(finalParcels) = Len(parcelUnits)
  /\ \E e \in 1..Len(finalParcels[1]) : finalParcels[1][e].lineItemPrice = 0

LastCall(r) == IF run[r].gw = <<>> THEN "" ELSE run[r].gw[Len(run[r].gw)]
Raises(r) == run'[r].pc = "done" /\ run'[r].result = "raised"
LoggedOrNot(r) == req' \in {req, [req EXCEPT !.status = "FAILED", !.errorLog = Log(run[r].err)]}
Phase2Steps == {"draftCreate", "draftComplete", "insertPaymentOrder", "invoice"}
InsertFailed(r) == run[r].pc = "log" /\ run[r].err = "phase1" /\ LastCall(r) = "hold"

\* C21: the additionalShippingAmount stored on the request equals (number of
\* parcels calculateFulfillmentSplits returns for the line items of the
\* order - 1) * costPerParcel.
C21_AmountFromPackedParcels ==
  (packed /\ req.status # "NONE") =>
    req.additionalShippingAmount =
      (Len(finalParcels) - 1) * getParcelPriceByShippingLineTitle(payload.title, payload.countryCode)

\* C26: every change of the status of the request is an edge of the saga
\* graph: creation as PENDING, APP_DISABLED or COMPLETED; PENDING ->
\* AWAITING_PAYMENT; AWAITING_PAYMENT -> COMPLETED; PENDING or
\* AWAITING_PAYMENT -> CANCELLED; PENDING or AWAITING_PAYMENT -> FAILED.
SagaEdges ==
  {<<"NONE", to>> : to \in {"PENDING", "APP_DISABLED", "COMPLETED"}}
  \cup {<<"PENDING", "AWAITING_PAYMENT">>, <<"AWAITING_PAYMENT", "COMPLETED">>}
  \cup {<<from, to>> : from \in {"PENDING", "AWAITING_PAYMENT"}, to \in {"CANCELLED", "FAILED"}}

C26_OnlySagaEdges ==
  [][req'.status # req.status => <<req.status, req'.status>> \in SagaEdges]_vars

\* C27: a delivery that finds the request FAILED by a failure of the hold
\* phase runs the saga again from the top: it does not end at the lookup
\* without performing the split and the hold.
C27_RerunsAfterHoldFailure ==
  [][\A r \in Runs :
       (/\ run[r].pc = "lookup"
        /\ req.status = "FAILED" /\ req.errorLog = Log("holdPhase")) =>
         run'[r].pc # "done"]_vars

\* C28: when draftOrderCreate, draftOrderComplete, the insert of the payment
\* order row or the invoice fails, the handler issues no release of holds
\* and leaves the hold rows as they are; it only records the error (status
\* FAILED and errorLog, when the store applies the update) and throws.
C28_Phase2FailureKeepsHolds ==
  [][\A r \in Runs :
       /\ (run[r].pc \in Phase2Steps /\ run'[r].pc = "log") =>
            /\ run'[r].err = "phase2"
            /\ holds' = holds /\ req' = req
            /\ "rollback" \notin Range(run'[r].gw)
       /\ (run[r].pc = "log" /\ run[r].err = "phase2" /\ run'[r].pc # "log") =>
            /\ holds' = holds
            /\ "rollback" \notin Calls(r)
            /\ Raises(r)
            /\ LoggedOrNot(r)]_vars

C28_Witness ==
  \E r \in Runs :
    /\ run[r].pc = "done" /\ run[r].result = "raised" /\ run[r].err = "phase2"
    /\ req.status = "FAILED" /\ req.errorLog = Log("phase2")
    /\ paymentOrders # {}
    /\ holds # {} /\ \A h \in holds : ~h.released

\* C29: when the insert of the hold rows fails after every hold of the batch
\* succeeded at the gateway, the handler issues no release, records the
\* error (status FAILED and errorLog, when the store applies the update),
\* throws, and does not reach draftOrderCreate in that delivery; the holds
\* placed at the gateway have no rows in the store.
C29_InsertFailureNoCompensation ==
  [][\A r \in Runs :
       /\ (run[r].pc = "insertHolds" /\ run'[r].pc # "insertHolds") =>
            /\ ~HoldFailed(r)
            /\ run'[r].gw = run[r].gw
            /\ run'[r].pc = "log" => (holds' = holds /\ run'[r].err = "phase1")
       /\ InsertFailed(r) =>
            /\ HoldSucceeded(r) \cap HoldIdsOf(holds) = {}
            /\ run'[r].pc # "log" =>
                 /\ Calls(r) \cap {"rollback", "draftCreate"} = {}
                 /\ holds' = holds
                 /\ Raises(r)
                 /\ LoggedOrNot(r)]_vars

C29_Witness ==
  \E r \in Runs :
    /\ InsertFailed(r)
    /\ Cardinality(HoldSucceeded(r)) = MaxFO
    /\ holds = {}
    /\ req.status = "PENDING"

\* C30: when the update of logDbError is not applied (the store answers with
\* an error, or the call throws), the handler still throws the error the
\* phase caught, unchanged.
C30_LogFailureKeepsError ==
  [][\A r \in Runs :
       (run[r].pc = "log" /\ run'[r].pc # "log" /\ req' = req) =>
         /\ Raises(r)
         /\ run'[r].err = run[r].err]_vars

C30_Witness ==
  \E r \in Runs :
    /\ run[r].pc = "done" /\ run[r].result = "raised" /\ run[r].err = "holdPhase"
    /\ req.status = "PENDING" /\ req.errorLog = NoLog
    /\ holds = {}


\* C31: a request with status AWAITING_PAYMENT has a payment order id and a
\* draft order id, and its errorLog is null.
C31_AwaitingPaymentLinked ==
  req.status = "AWAITING_PAYMENT" =>
    /\ req.paymentOrderId # 0 /\ req.draftOrderId # 0
    /\ req.errorLog = NoLog

C31_Witness ==
  /\ req.status = "AWAITING_PAYMENT"
  /\ req.paymentOrderId = PaymentOrderId(2) /\ req.draftOrderId = DraftId(2)
  /\ \A r \in Runs : run[r].result = "success"

\* the gateway calls of a delivery that goes through, in order
SagaCalls == <<"foQuery", "split", "hold", "draftCreate", "draftComplete", "invoice">>
CallsDone(r, n) == run[r].gw = SubSeq(SagaCalls, 1, n)
InOrder(r) ==
  /\ \/ \E n \in 0..Len(SagaCalls) : CallsDone(r, n)
     \/ run[r].gw = <<"foQuery", "split", "hold", "rollback">>
  /\ run[r].gw # <<>> => req.status # "NONE"
  /\ run[r].pc = "foQuery" => CallsDone(r, 0)
  /\ run[r].pc = "split" => CallsDone(r, 1)
  /\ run[r].pc = "hold" => CallsDone(r, 2)
  /\ run[r].pc \in {"rollback", "insertHolds"} => CallsDone(r, 3)
  /\ run[r].pc = "draftCreate" =>
       /\ CallsDone(r, 3) /\ ~HoldFailed(r)
       /\ HoldSucceeded(r) \subseteq HoldIdsOf(holds)
  /\ run[r].pc = "draftComplete" => CallsDone(r, 4)
  /\ run[r].pc \in {"insertPaymentOrder", "invoice"} =>
       CallsDone(r, 5) /\ PaymentOrderId(r) \in paymentOrders
  /\ run[r].pc = "link" => CallsDone(r, 6)

\* C32: within one delivery the side effects occur in the order request
\* upsert, split, bulk hold, insert of the hold rows, draftOrderCreate,
\* draftOrderComplete, insert of the payment order row, invoice, status
\* AWAITING_PAYMENT, each only after the earlier ones succeeded: no draft
\* order before the hold rows are in the store, no AWAITING_PAYMENT before
\* the invoice was sent.
C32_EffectsInOrder ==
  [][/\ \A r \in Runs : InOrder(r)'
     /\ (req'.status = "AWAITING_PAYMENT" /\ req' # req) =>
          \E r \in Runs : run[r].pc = "link" /\ CallsDone(r, 6) /\ run'[r].result = "success"]_vars

C32_Witness ==
  \E r \in Runs :
    /\ run[r].pc = "link" /\ CallsDone(r, 6)
    /\ HoldIdsOf(holds) = HoldSucceeded(r) /\ Cardinality(holds) = MaxFO
    /\ req.status = "PENDING"

\* a step of delivery r in which a store or gateway call fails, or answers
\* without what was asked for
FailureStep(r) ==
  \/ run'[r].pc \in {"log", "rollback"}
  \/ Raises(r)
  \/ run[r].pc = "refs" /\ run'[r].isAppEnabled # appEnabled
  \/ run[r].pc = "lookup" /\ run'[r].existingRecord # req.status
  \/ run[r].pc = "hold" /\ \E i \in DOMAIN run'[r].holdResults : run'[r].holdResults[i] # "ok"
RowsOf(r) == {h \in holds : h.holdId \in HoldIdsOfRun(r)}
NextPosition ==
  [refs |-> "lookup", lookup |-> "upsert", upsert |-> "foQuery", foQuery |-> "split",
   split |-> "hold", hold |-> "insertHolds", insertHolds |-> "draftCreate",
   draftCreate |-> "draftComplete", draftComplete |-> "insertPaymentOrder",
   insertPaymentOrder |-> "invoice", invoice |-> "link", link |-> "done"]

\* C33: for an event that passes the prechecks with split_choice 'yes' on an
\* enabled shop and no request yet, while every store and gateway call
\* succeeds each step of the handler leads to the next position, the last
\* one returns success with the request AWAITING_PAYMENT, and there is one
\* hold row per fulfillment order held.
C33_Steps ==
  [][\A r \in Runs :
       (/\ appEnabled /\ splitChoiceBoolean
        /\ run[r].pc \in DOMAIN NextPosition /\ run'[r] # run[r]
        /\ run[r].pc = "lookup" => req.status = "NONE"
        /\ run[r].pc = "upsert" => run[r].isAppEnabled
        /\ \A i \in DOMAIN run[r].holdResults : run[r].holdResults[i] = "ok"
        /\ ~FailureStep(r)) =>
         /\ run'[r].pc = NextPosition[run[r].pc]
         /\ run[r].pc = "upsert" => req'.status = "PENDING"
         /\ run[r].pc = "insertHolds" =>
              /\ Cardinality(RowsOf(r)') = Len(run[r].holdResults)
              /\ \A h \in RowsOf(r)' : ~h.released
         /\ run[r].pc = "link" =>
              /\ run'[r].result = "success"
              /\ req'.status = "AWAITING_PAYMENT"
              /\ Cardinality(RowsOf(r)) = Len(run[r].holdResults)
              /\ Cardinality({h.fulfillmentOrderId : h \in RowsOf(r)}) = Len(run[r].holdResults)]_vars

C33_Witness ==
  /\ run[1].result = "success" /\ run[2].pc = "idle"
  /\ \A w \in PayEvents : hook[w].pc = "idle"
  /\ primaryCancels = 0 /\ paymentCancels = 0
  /\ req.status = "AWAITING_PAYMENT" /\ req.paymentOrderId = PaymentOrderId(1)
  /\ Cardinality(holds) = MaxFO /\ \A h \in holds : ~h.released

C33_Terminates ==
  \A r \in Runs : (run[r].pc = "refs") ~> (run[r].pc = "done")

\* C33, whole: the steps above, and a handler that has passed the prechecks
\* terminates.
C33_SuccessPathCompletes == C33_Steps /\ C33_Terminates

\* what the claim about absorption speaks about
HeavyCount == Len(HeavyUnits(allUnits))
AbsorbedBy(k) == Tail(parcelUnits[k])
CountLike(units, u) == Len(SelectSeq(units, LAMBDA v : v = u))
PlacedCount(u) == SumOf([k \in 1..Len(parcelUnits) |-> CountLike(parcelUnits[k], u)])

\* C34: in the output of calculateFulfillmentSplits every parcel anchored by
\* a heavy unit holds, besides the anchor, at most absorbItemsPerHeavy
\* non-heavy units whose prices add up to at most absorbPerHeavyCents, and
\* a non-heavy unit is placed once: in one heavy parcel or in one residual
\* bin.
C34_AbsorptionWithinBudget ==
  packed =>
    /\ UnitsMatchOutput
    /\ \A k \in 1..HeavyCount :
         /\ IsHeavy(parcelUnits[k][1])
         /\ Len(AbsorbedBy(k)) <= absorbItemsPerHeavy
         /\ SumPrices(AbsorbedBy(k)) <= absorbPerHeavyCents
         /\ \A u \in Range(AbsorbedBy(k)) : u.price > 0 /\ ~IsHeavy(u)
    /\ \A u \in Range(PricedUnits) : PlacedCount(u) = CountLike(allUnits, u)

C34_Witness ==
  /\ packed /\ HeavyCount >= 2
  /\ Len(AbsorbedBy(1)) = absorbItemsPerHeavy
  /\ Len(AbsorbedBy(2)) = 1
  /\ Len(parcelUnits) > HeavyCount
  /\ SumPrices(AbsorbedBy(2)) + parcelUnits[HeavyCount + 1][1].price > absorbPerHeavyCents

\* C35: a failure of a store operation of the init phase (the upserts of the
\* shop, order and customer rows, the upsert of the request) makes the
\* handler throw before any gateway call; none is swallowed.  A failed shop
\* upsert shows as an enabled shop read as not enabled.
C35_InitFailureRaises ==
  [][\A r \in Runs :
       /\ (run[r].pc = "refs" /\ appEnabled /\ ~run'[r].isAppEnabled) => Raises(r)
       /\ (run[r].pc = "upsert" /\ Raises(r)) => (run[r].gw = <<>> /\ req' = req)]_vars

\* C40: a request is recorded as APP_DISABLED only when the settings of the
\* shop say the feature is disabled; a failed shop upsert does not make the
\* request of an enabled shop APP_DISABLED.
C40_AppDisabledOnlyWhenDisabled ==
  req.status = "APP_DISABLED" => ~appEnabled

\* C36: whenever the handler throws after the request was upserted, and the
\* update of logDbError is applied, the row is left FAILED with an errorLog;
\* this includes a failure of the fulfillment-order query.
C36_RaiseLeavesFailed ==
  [][\A r \in Runs :
       (Raises(r) /\ run[r].pc \notin {"idle", "refs", "lookup", "upsert"}) =>
         \/ req'.status = "FAILED" /\ req'.errorLog # NoLog
         \/ run[r].pc = "log" /\ req' = req]_vars

\* C37: the handler reaches draftOrderCreate only when every fulfillment
\* order of the hold batch has a successful hold whose row is in the store;
\* an alias that answers with neither a hold id nor a userError stops it.
C37_EveryHoldConfirmed ==
  \A r \in Runs :
    run[r].pc = "draftCreate" =>
      /\ \A i \in DOMAIN run[r].holdResults : run[r].holdResults[i] = "ok"
      /\ HoldIdsOfRun(r) \subseteq HoldIdsOf(holds)

\* C38: for the same lines and options the count of the checkout,
\* recommendFulfillmentCount(...).fulfillmentCount, equals the number of
\* parcels calculateFulfillmentSplits returns.
C38_CheckoutCountIsParcelCount ==
  packed => recommended = Len(finalParcels)

\* C39: in every state, whatever the interleaving of the payment webhook
\* with deliveries of the order-created job, a request with status COMPLETED
\* has no hold row with released = false.
C39_CompletedHasNoActiveHold ==
  req.status = "COMPLETED" => \A h \in holds : h.released

====
